---- MODULE Spec2Model ----
(***************************************************************************)
(* A model of src/app.py: the feed aggregation (fetch_articles), the       *)
(* query/pagination handler (index) and the thumbnail handler (thumb).     *)
(*                                                                         *)
(* Four specifications share the variables:                                *)
(*   SpecThumb      concurrent /thumb requests over the on-disk cache      *)
(*   SpecNormalize  the body of fetch_articles' entry loop on one entry    *)
(*   SpecFetch      fetch_articles over a list of feeds                    *)
(*   SpecIndex      one GET / request: fetch, filter, paginate             *)
(* Text is a sequence of one-character strings, so that lower(), strip(),  *)
(* the `in` substring test and int() are computed, not assumed.            *)
(***************************************************************************)
EXTENDS Integers, Sequences, FiniteSets, TLC

VARIABLES
    cache,      \* thumb_cache/: key -> file on disk
    treq,       \* per /thumb request: position, parameters, response
    rawEntry,   \* SpecNormalize: the feedparser entry being normalised
    normalized, \* SpecNormalize: outcome of the loop body on rawEntry
    feeds,      \* feeds.json with what feedparser.parse returns per feed
    fetched,    \* SpecFetch: outcome of fetch_articles()
    args,       \* SpecIndex: request.args of the GET / request
    response    \* SpecIndex: outcome of index()

vars == <<cache, treq, rawEntry, normalized, feeds, fetched, args, response>>

\* Value of a variable that the running specification does not use.
Unused == "unused"

\* Python's None / a missing attribute (getattr default applies).
None == "None"

----------------------------------------------------------------------------
(* Bounds of the model *)

\* Number of concurrent /thumb requests.
NumReqs == 2

\* Longest entry.links list of a modelled feed entry.
MaxLinks == 2

\* Most feeds in feeds.json and most entries per feed in SpecFetch.
MaxFeeds == 2
MaxEntries == 2

\* Most articles the feeds of SpecIndex hold together.
MaxArticles == 40

----------------------------------------------------------------------------
(* thumb(): src/app.py lines 165-184 *)

Reqs == 1..NumReqs

\* Values of the query parameter u ("" is the default of line 167).
ThumbUrls == {"", "u1"}

\* Values of (w, h); <<500, 500>> are the defaults of lines 168-169.
ThumbDims == {<<500, 500>>, <<250, 250>>}

\* What the remote server may send for one URL at different times.
ImageVersions == {"imgA", "imgB"}

\* Line 172-173: the cache path is a function of (url, w, h); quote_plus is
\* injective and the result contains no path separator, so the triple
\* itself identifies the file.
ThumbKey(url, dims) == <<url, dims[1], dims[2]>>

ThumbKeys == {ThumbKey(u, d) : u \in ThumbUrls \ {""}, d \in ThumbDims}

\* A file of the cache directory.  writers: requests that hold it open for
\* writing; whole: every byte of the last save has been written and the
\* file closed; data: what the bytes encode.
NoFile == [exists |-> FALSE, writers |-> {}, whole |-> FALSE, data |-> None]

\* A request before it runs.  during: the requests in flight when this one
\* made its exists-check; fetched: it called requests.get; failedAt: the
\* step whose exception line 183 caught.
NoKey == <<"", 0, 0>>
NoBody == [data |-> None, whole |-> FALSE]
NewReq == [pc |-> "start", key |-> NoKey, img |-> None, created |-> FALSE,
           missed |-> FALSE, during |-> {}, fetched |-> FALSE,
           failedAt |-> None, status |-> 0, body |-> NoBody]

InFlight(r) == treq[r].pc \notin {"start", "done"}

ThumbUnchanged == UNCHANGED <<rawEntry, normalized, feeds, fetched, args, response>>

\* Line 174: os.path.exists(path).
PathExists(k) == cache[k].exists

\* What send_file streams from the path at the time it is called.
FileBody(k) == [data |-> cache[k].data, whole |-> cache[k].whole]

\* Lines 167-171: read the parameters (w and h as the integers int() made
\* of them); an empty u is answered 404 at once.
ThumbStart(r) ==
    /\ treq[r].pc = "start"
    /\ \E url \in ThumbUrls, d \in ThumbDims :
          IF url = ""
          THEN treq' = [treq EXCEPT ![r].pc = "done", ![r].status = 404]
          ELSE treq' = [treq EXCEPT ![r].pc = "check", ![r].key = ThumbKey(url, d)]
    /\ UNCHANGED cache
    /\ ThumbUnchanged

\* Line 174: the exists-check decides between the hit and the miss branch.
ThumbCheck(r) ==
    /\ treq[r].pc = "check"
    /\ IF PathExists(treq[r].key)
       THEN treq' = [treq EXCEPT ![r].pc = "send_hit"]
       ELSE treq' = [treq EXCEPT ![r].pc = "fetch", ![r].missed = TRUE,
                                 ![r].during = {q \in Reqs \ {r} : InFlight(q)}]
    /\ UNCHANGED cache
    /\ ThumbUnchanged

\* Line 175: send_file on the hit branch, outside the try block: a path
\* that vanished since the check is an unhandled error (500).
ThumbSendHit(r) ==
    /\ treq[r].pc = "send_hit"
    /\ IF PathExists(treq[r].key)
       THEN treq' = [treq EXCEPT ![r].pc = "done", ![r].status = 200,
                                 ![r].body = FileBody(treq[r].key)]
       ELSE treq' = [treq EXCEPT ![r].pc = "done", ![r].status = 500]
    /\ UNCHANGED cache
    /\ ThumbUnchanged

\* Lines 177-178: requests.get + raise_for_status.  The network either
\* delivers some version of the image or fails (timeout, non-200), and the
\* failure is caught at line 183.
ThumbFetch(r) ==
    /\ treq[r].pc = "fetch"
    /\ \/ \E v \in ImageVersions :
             treq' = [treq EXCEPT ![r].pc = "decode", ![r].img = v,
                                  ![r].fetched = TRUE]
       \/ treq' = [treq EXCEPT ![r].pc = "done", ![r].status = 404,
                                ![r].fetched = TRUE, ![r].failedAt = "fetch"]
    /\ UNCHANGED cache
    /\ ThumbUnchanged

\* Lines 179-180: Image.open/convert/ImageOps.fit, all in memory.  An
\* undecodable image or a failing resize is caught at line 183.
ThumbDecode(r) ==
    /\ treq[r].pc = "decode"
    /\ \/ treq' = [treq EXCEPT ![r].pc = "save_open"]
       \/ treq' = [treq EXCEPT ![r].pc = "done", ![r].status = 404,
                                ![r].failedAt = "decode"]
    /\ UNCHANGED cache
    /\ ThumbUnchanged

\* Line 181, first half: im.save opens the path for writing, which creates
\* or truncates the file before a single byte is encoded.  Writers that
\* overlap with different data leave a mixture.
ThumbSaveOpen(r) ==
    /\ treq[r].pc = "save_open"
    /\ LET k == treq[r].key
           f == cache[k]
       IN /\ cache' = [cache EXCEPT ![k] =
                  [exists  |-> TRUE,
                   writers |-> f.writers \cup {r},
                   whole   |-> FALSE,
                   data    |-> IF f.writers = {} \/ f.data = treq[r].img
                               THEN treq[r].img ELSE "mixed"]]
          /\ treq' = [treq EXCEPT ![r].pc = "save_write", ![r].created = ~f.exists]
    /\ ThumbUnchanged

\* Line 181, second half, success: the encoder has written everything and
\* the file is closed.  The path does not come back if it was unlinked.
ThumbSaveDone(r) ==
    /\ treq[r].pc = "save_write"
    /\ LET k == treq[r].key
           f == cache[k]
       IN cache' = [cache EXCEPT ![k].writers = f.writers \ {r},
                                 ![k].whole = (f.writers \ {r} = {})]
    /\ treq' = [treq EXCEPT ![r].pc = "send_miss"]
    /\ ThumbUnchanged

\* Line 181, second half, failure (disk full, encoder error): the exception
\* goes to line 183-184, which returns 404 and does not touch the path.
\* Whether the imaging library unlinks a file it created itself depends on
\* its version, so both outcomes are possible.
ThumbSaveFail(r) ==
    /\ treq[r].pc = "save_write"
    /\ LET k == treq[r].key
           f == cache[k]
       IN \E unlink \in BOOLEAN :
             cache' = [cache EXCEPT ![k] =
                 IF unlink /\ treq[r].created
                 THEN [f EXCEPT !.exists = FALSE, !.writers = f.writers \ {r}]
                 ELSE [f EXCEPT !.writers = f.writers \ {r}]]
    /\ treq' = [treq EXCEPT ![r].pc = "done", ![r].status = 404,
                             ![r].failedAt = "save"]
    /\ ThumbUnchanged

\* Line 182: send_file on the miss branch, inside the try block: a missing
\* path is caught at line 183 (404).
ThumbSendMiss(r) ==
    /\ treq[r].pc = "send_miss"
    /\ IF PathExists(treq[r].key)
       THEN treq' = [treq EXCEPT ![r].pc = "done", ![r].status = 200,
                                 ![r].body = FileBody(treq[r].key)]
       ELSE treq' = [treq EXCEPT ![r].pc = "done", ![r].status = 404,
                                 ![r].failedAt = "send"]
    /\ UNCHANGED cache
    /\ ThumbUnchanged

ThumbInit ==
    /\ cache = [k \in ThumbKeys |-> NoFile]
    /\ treq = [r \in Reqs |-> NewReq]
    /\ rawEntry = Unused /\ normalized = Unused
    /\ feeds = Unused /\ fetched = Unused
    /\ args = Unused /\ response = Unused

ThumbNext ==
    \/ \E r \in Reqs : ThumbStart(r)
    \/ \E r \in Reqs : ThumbCheck(r)
    \/ \E r \in Reqs : ThumbSendHit(r)
    \/ \E r \in Reqs : ThumbFetch(r)
    \/ \E r \in Reqs : ThumbDecode(r)
    \/ \E r \in Reqs : ThumbSaveOpen(r)
    \/ \E r \in Reqs : ThumbSaveDone(r)
    \/ \E r \in Reqs : ThumbSaveFail(r)
    \/ \E r \in Reqs : ThumbSendMiss(r)

SpecThumb == ThumbInit /\ [][ThumbNext]_vars

\* Two requests overlapped in time: one was in flight when the other made
\* its exists-check.
Concurrent(r1, r2) == r1 \in treq[r2].during \/ r2 \in treq[r1].during

\* C1: two concurrent thumb requests for the same URL, width and height
\* that start from a cache miss perform at most one network fetch and
\* return byte-identical output, and no request is ever served a cache
\* file that is still being written or was left incomplete.
C1_SingleFlightNoPartial ==
    /\ \A r1, r2 \in Reqs :
          (r1 # r2 /\ treq[r1].key = treq[r2].key /\ Concurrent(r1, r2)
             /\ treq[r1].missed /\ treq[r2].missed)
          => /\ ~(treq[r1].fetched /\ treq[r2].fetched)
             /\ (treq[r1].status = 200 /\ treq[r2].status = 200)
                  => treq[r1].body = treq[r2].body
    /\ \A r \in Reqs : treq[r].status = 200 => treq[r].body.whole

\* No other request has begun: what the cache holds is the doing of r alone.
RanAlone(r) == \A q \in Reqs \ {r} : treq[q].pc = "start"

\* C2: a thumb request with a non-empty URL that misses the cache and
\* fails at any step (fetch, decode/resize, save) returns "not found" and
\* leaves no cache entry for its key, so that a later request cannot hit a
\* partially written file.
C2_FailureLeavesNoEntry ==
    \A r \in Reqs :
        (treq[r].pc = "done" /\ treq[r].missed /\ treq[r].failedAt # None)
        => /\ treq[r].status = 404
           /\ RanAlone(r) => ~PathExists(treq[r].key)

----------------------------------------------------------------------------
(* Text and optional values *)

\* An optional value: <<>> is Python's None or a missing attribute/key,
\* <<v>> is the value v.
Nothing == <<>>
Some(v) == <<v>>
IsSome(o) == o # <<>>
Get(o) == o[1]

\* str.lower() on one character of the model's alphabet.
LowerChar(c) ==
    CASE c = "A" -> "a" [] c = "B" -> "b" [] c = "C" -> "c"
      [] c = "N" -> "n" [] c = "M" -> "m" [] c = "U" -> "u"
      [] OTHER -> c

\* str.lower().
Lower(t) == [i \in 1..Len(t) |-> LowerChar(t[i])]

IsSpace(c) == c = " "

\* str.strip(): drop leading and trailing whitespace.
RECURSIVE LStrip(_)
LStrip(t) == IF t # <<>> /\ IsSpace(Head(t)) THEN LStrip(Tail(t)) ELSE t

RECURSIVE RStrip(_)
RStrip(t) ==
    IF t # <<>> /\ IsSpace(t[Len(t)]) THEN RStrip(SubSeq(t, 1, Len(t) - 1)) ELSE t

Strip(t) == RStrip(LStrip(t))

\* str.startswith(prefix).
StartsWith(t, prefix) ==
    Len(prefix) <= Len(t) /\ SubSeq(t, 1, Len(prefix)) = prefix

\* The `needle in text` substring test.
Contains(text, needle) ==
    \E i \in 0..(Len(text) - Len(needle)) : SubSeq(text, i + 1, i + Len(needle)) = needle

\* The literals of lines 72, 73, 75 and 67.
Untitled == <<"(", "u", "n", "t", "i", "t", "l", "e", "d", ")">>
HashLink == <<"#">>
UnknownSource == <<"U", "n", "k", "n", "o", "w", "n">>
ImagePrefix == <<"i", "m", "a", "g", "e", "/">>

----------------------------------------------------------------------------
(* The body of the entry loop of fetch_articles: src/app.py lines 44-78 *)

\* Lines 46-51: published_parsed is missing (falsy), a struct_time that
\* time.mktime converts ("ok"), or one on which mktime raises ("bad"); the
\* exception is caught and the timestamp stays None.
PublishedTs(entry) ==
    IF entry.published.kind = "ok" THEN Some(entry.published.ts) ELSE Nothing

\* Lines 57 and 62: coll[0].get("url") inside try/except.  kind is "absent"
\* (attribute missing or empty list: the if is not entered), "url" (first
\* item carries a url), "nourl" (get returns None) or "bad" (coll[0] or
\* .get raises, which is passed over).
FirstUrl(coll) == IF coll.kind = "url" THEN Some(coll.url) ELSE Nothing

\* `not image`: None and the empty string are both falsy.
Falsy(image) == image = Nothing \/ Get(image) = <<>>

\* Line 67: l.get("type", "") is "" when the key is missing, the string
\* when it is one, and a non-string (None, a number) otherwise, on which
\* .startswith raises AttributeError.
LinkTypeRaises(l) == l.type.kind = "nonstr"
LinkTypeText(l) == IF l.type.kind = "str" THEN l.type.text ELSE <<>>

\* Lines 66-69: the for loop over entry.links, not inside any try.
RECURSIVE ScanLinks(_)
ScanLinks(links) ==
    IF links = <<>> THEN [raised |-> FALSE, image |-> Nothing]
    ELSE LET l == Head(links) IN
         IF LinkTypeRaises(l) THEN [raised |-> TRUE, image |-> Nothing]
         ELSE IF StartsWith(LinkTypeText(l), ImagePrefix)
              THEN [raised |-> FALSE, image |-> l.href]
              ELSE ScanLinks(Tail(links))

\* Lines 54-69: the image of an entry.
ExtractImage(entry) ==
    LET i1 == IF entry.media_content.kind # "absent"
              THEN FirstUrl(entry.media_content) ELSE Nothing
        i2 == IF Falsy(i1) /\ entry.media_thumbnail.kind # "absent"
              THEN FirstUrl(entry.media_thumbnail) ELSE i1
    IN IF Falsy(i2) /\ entry.links # <<>>
       THEN ScanLinks(entry.links)
       ELSE [raised |-> FALSE, image |-> i2]

\* Line 75: feed.get("name", "Unknown").
SourceName(desc) == IF IsSome(desc.name) THEN Get(desc.name) ELSE UnknownSource

\* Lines 71-78: the article dictionary.
MakeArticle(entry, desc, image) ==
    [title     |-> IF IsSome(entry.title) THEN Get(entry.title) ELSE Untitled,
     link      |-> IF IsSome(entry.link) THEN Get(entry.link) ELSE HashLink,
     summary   |-> IF IsSome(entry.summary) THEN Get(entry.summary) ELSE <<>>,
     source    |-> SourceName(desc),
     published |-> PublishedTs(entry),
     image     |-> IF Falsy(image) THEN <<>> ELSE Get(image)]

NoArticle ==
    [title |-> <<>>, link |-> <<>>, summary |-> <<>>, source |-> <<>>,
     published |-> Nothing, image |-> <<>>]

\* Lines 44-78 on one entry: the article, or the exception that leaves the
\* loop and fetch_articles.
NormalizeEntry(entry, desc) ==
    LET img == ExtractImage(entry) IN
    IF img.raised THEN [raised |-> TRUE, article |-> NoArticle]
    ELSE [raised |-> FALSE, article |-> MakeArticle(entry, desc, img.image)]

----------------------------------------------------------------------------
(* The feedparser entries and feed descriptors the model ranges over *)

BoundedSeq(S, n) == UNION {[1..k -> S] : k \in 0..n}

\* Seconds since the epoch as time.mktime returns them: before, at and
\* after 1970-01-01.
TimeStamps == {-1, 0, 2}

\* A summary holding an inline image: <img src="u">.
ImgTag(u) ==
    <<"<", "i", "m", "g", " ", "s", "r", "c", "=", "\"">> \o u \o <<"\"", ">">>

TypeJpeg == ImagePrefix \o <<"j">>
TypeHtml == <<"t", "e", "x", "t", "/", "h">>

EntryTitles == {Nothing, Some(<<>>), Some(<<"a", "B">>)}
EntryLinks == {Nothing, Some(<<"l">>)}
EntrySummaries == {Nothing, Some(<<"b">>), Some(ImgTag(<<"i">>))}
EntryPublished ==
    {[kind |-> "absent", ts |-> 0], [kind |-> "bad", ts |-> 0]}
      \cup {[kind |-> "ok", ts |-> t] : t \in TimeStamps}
MediaColls(u) ==
    {[kind |-> "absent", url |-> <<>>], [kind |-> "url", url |-> u],
     [kind |-> "nourl", url |-> <<>>], [kind |-> "bad", url |-> <<>>]}
LinkItems ==
    {[type |-> [kind |-> "str", text |-> TypeHtml], href |-> Some(<<"h">>)],
     [type |-> [kind |-> "str", text |-> TypeJpeg], href |-> Some(<<"j">>)],
     [type |-> [kind |-> "str", text |-> TypeJpeg], href |-> Nothing],
     [type |-> [kind |-> "absent", text |-> <<>>], href |-> Some(<<"h">>)],
     [type |-> [kind |-> "nonstr", text |-> <<>>], href |-> Some(<<"h">>)]}

Entries ==
    [title : EntryTitles, link : EntryLinks, summary : EntrySummaries,
     published : EntryPublished,
     media_content : MediaColls(<<"c">>),
     media_thumbnail : MediaColls(<<"t">>),
     links : BoundedSeq(LinkItems, MaxLinks)]

\* A feed descriptor of feeds.json: does feed["url"] succeed, and the name.
FeedDescs == [hasUrl : {TRUE}, name : {Nothing, Some(<<"N">>)}]

----------------------------------------------------------------------------
(* SpecNormalize: the loop body applied to one entry.  (normalize(text) of  *)
(* line 84 is the tokenizer of compute_trends and is not modelled.)        *)

NormalizeUnchanged == UNCHANGED <<cache, treq, feeds, fetched, args, response>>

NormalizeInit ==
    /\ rawEntry \in [entry : Entries, desc : FeedDescs]
    /\ normalized = [done |-> FALSE, raised |-> FALSE, article |-> NoArticle]
    /\ cache = Unused /\ treq = Unused
    /\ feeds = Unused /\ fetched = Unused
    /\ args = Unused /\ response = Unused

Normalize ==
    /\ ~normalized.done
    /\ LET out == NormalizeEntry(rawEntry.entry, rawEntry.desc)
       IN normalized' = [done |-> TRUE, raised |-> out.raised, article |-> out.article]
    /\ UNCHANGED rawEntry
    /\ NormalizeUnchanged

NormalizeNext == Normalize

SpecNormalize == NormalizeInit /\ [][NormalizeNext]_vars

\* The src of the first <img src="..."> of an HTML text, <<>> when none.
ImgOpen == <<"<", "i", "m", "g", " ", "s", "r", "c", "=", "\"">>

RECURSIVE UpToQuote(_)
UpToQuote(t) ==
    IF t = <<>> \/ Head(t) = "\"" THEN <<>> ELSE <<Head(t)>> \o UpToQuote(Tail(t))

RECURSIVE FirstImgSrc(_)
FirstImgSrc(t) ==
    IF t = <<>> THEN <<>>
    ELSE IF StartsWith(t, ImgOpen)
         THEN UpToQuote(SubSeq(t, Len(ImgOpen) + 1, Len(t)))
         ELSE FirstImgSrc(Tail(t))

\* The href of the first link whose type is a string starting with image/;
\* links with a missing or malformed type are passed over.
RECURSIVE FirstImageLink(_)
FirstImageLink(links) ==
    IF links = <<>> THEN <<>>
    ELSE LET l == Head(links) IN
         IF l.type.kind = "str" /\ StartsWith(l.type.text, ImagePrefix)
         THEN (IF IsSome(l.href) THEN Get(l.href) ELSE <<>>)
         ELSE FirstImageLink(Tail(links))

\* The documented fallback chain: the first step that yields a URL wins.
ExpectedImage(entry) ==
    LET s1 == IF entry.media_content.kind = "url" THEN entry.media_content.url ELSE <<>>
        s2 == IF entry.media_thumbnail.kind = "url" THEN entry.media_thumbnail.url ELSE <<>>
        s3 == FirstImageLink(entry.links)
        s4 == IF IsSome(entry.summary) THEN FirstImgSrc(Get(entry.summary)) ELSE <<>>
    IN IF s1 # <<>> THEN s1
       ELSE IF s2 # <<>> THEN s2
       ELSE IF s3 # <<>> THEN s3
       ELSE s4

\* C8: the image of a normalized article follows the priority order media
\* content, media thumbnail, first image-typed link, first inline <img src>,
\* empty; a step that yields nothing or meets a malformed sub-field
\* advances to the next one.
C8_ImagePriority ==
    normalized.done =>
        /\ ~normalized.raised
        /\ normalized.article.image = ExpectedImage(rawEntry.entry)

\* C9: normalizing one raw entry never raises, whatever sub-fields are
\* present, absent or malformed; the title is "(untitled)" when the entry's
\* title is absent or empty and the link is "#" when the link is absent.
C9_NormalizeNeverRaises ==
    normalized.done =>
        /\ ~normalized.raised
        /\ (rawEntry.entry.title \in {Nothing, Some(<<>>)})
              => normalized.article.title = Untitled
        /\ rawEntry.entry.link = Nothing => normalized.article.link = HashLink

----------------------------------------------------------------------------
(* fetch_articles(): src/app.py lines 36-82 *)

\* A loop body that keeps an entry only when it is dated and recent (a
\* strict freshness policy), for comparison with line 71.
AppendIfFresh(articles, article) ==
    IF IsSome(article.published) /\ Get(article.published) >= 0
    THEN Append(articles, article) ELSE articles

\* Line 71: articles.append({...}); every entry that reaches it is kept.
AppendArticle(articles, article) == Append(articles, article)

\* Lines 44-78: the loop over d.entries of one feed.  An exception of the
\* loop body is not caught anywhere in fetch_articles.
RECURSIVE EntryLoop(_, _, _)
EntryLoop(entries, desc, articles) ==
    IF entries = <<>> THEN [raised |-> FALSE, articles |-> articles]
    ELSE LET out == NormalizeEntry(Head(entries), desc) IN
         IF out.raised THEN [raised |-> TRUE, articles |-> articles]
         ELSE EntryLoop(Tail(entries), desc, AppendArticle(articles, out.article))

\* Lines 40-43: feedparser.parse(feed["url"]) inside try/except: a missing
\* url key (or a descriptor that is no dict) and a raising parse are both
\* caught and the feed is skipped.
ParseFails(feed) == ~feed.desc.hasUrl \/ feed.parseRaises

\* Lines 39-78: the loop over the feeds.
RECURSIVE FeedLoop(_, _)
FeedLoop(fs, articles) ==
    IF fs = <<>> THEN [raised |-> FALSE, articles |-> articles]
    ELSE LET f == Head(fs) IN
         IF ParseFails(f) THEN FeedLoop(Tail(fs), articles)
         ELSE LET r == EntryLoop(f.entries, f.desc, articles) IN
              IF r.raised THEN r ELSE FeedLoop(Tail(fs), r.articles)

\* Line 81: key=lambda x: x["published"] or 0 (None and 0.0 are falsy).
SortKey(a) ==
    IF IsSome(a.published) /\ Get(a.published) # 0 THEN Get(a.published) ELSE 0

\* list.sort(reverse=True) is stable: x goes behind every element whose
\* key is greater than or equal to its own.
InsertByKey(sorted, x) ==
    LET pos == Cardinality({i \in 1..Len(sorted) : SortKey(sorted[i]) >= SortKey(x)})
    IN SubSeq(sorted, 1, pos) \o <<x>> \o SubSeq(sorted, pos + 1, Len(sorted))

\* Line 81: articles.sort(key=..., reverse=True).
RECURSIVE SortArticles(_)
SortArticles(s) ==
    IF s = <<>> THEN <<>>
    ELSE InsertByKey(SortArticles(SubSeq(s, 1, Len(s) - 1)), s[Len(s)])

\* Lines 36-82: the whole function; raised when an exception left it.
fetch_articles(fs) ==
    LET r == FeedLoop(fs, <<>>) IN
    IF r.raised THEN [raised |-> TRUE, articles |-> <<>>]
    ELSE [raised |-> FALSE, articles |-> SortArticles(r.articles)]

----------------------------------------------------------------------------
(* SpecFetch: fetch_articles over the feeds of feeds.json *)

PlainEntry ==
    [title |-> Some(<<"a", "B">>), link |-> Some(<<"l">>), summary |-> Some(<<"b">>),
     published |-> [kind |-> "ok", ts |-> 2],
     media_content |-> [kind |-> "absent", url |-> <<>>],
     media_thumbnail |-> [kind |-> "absent", url |-> <<>>],
     links |-> <<>>]

\* A recent entry, one dated before 1970, one without a date, and one whose
\* link type is not a string.
FetchEntries ==
    {PlainEntry,
     [PlainEntry EXCEPT !.published = [kind |-> "ok", ts |-> -1]],
     [PlainEntry EXCEPT !.published = [kind |-> "absent", ts |-> 0]],
     [PlainEntry EXCEPT !.links =
         <<[type |-> [kind |-> "nonstr", text |-> <<>>], href |-> Some(<<"h">>)]>>]}

NamedDesc == [hasUrl |-> TRUE, name |-> Some(<<"N">>)]

\* A descriptor without url, a feed whose parse raises, and the feeds
\* that parse into some entries.
FetchFeeds ==
    {[desc |-> [hasUrl |-> FALSE, name |-> Some(<<"N">>)], parseRaises |-> FALSE,
      entries |-> <<>>],
     [desc |-> NamedDesc, parseRaises |-> TRUE, entries |-> <<>>]}
    \cup {[desc |-> NamedDesc, parseRaises |-> FALSE, entries |-> es] :
            es \in BoundedSeq(FetchEntries, MaxEntries)}

NotFetched == [done |-> FALSE, raised |-> FALSE, articles |-> <<>>]

FetchUnchanged == UNCHANGED <<cache, treq, rawEntry, normalized, args, response>>

FetchInit ==
    /\ feeds \in BoundedSeq(FetchFeeds, MaxFeeds)
    /\ fetched = NotFetched
    /\ cache = Unused /\ treq = Unused
    /\ rawEntry = Unused /\ normalized = Unused
    /\ args = Unused /\ response = Unused

Fetch ==
    /\ ~fetched.done
    /\ LET out == fetch_articles(feeds)
       IN fetched' = [done |-> TRUE, raised |-> out.raised, articles |-> out.articles]
    /\ UNCHANGED feeds
    /\ FetchUnchanged

FetchNext == Fetch

SpecFetch == FetchInit /\ [][FetchNext]_vars

Range(s) == {s[i] : i \in DOMAIN s}
Count(s, x) == Cardinality({i \in DOMAIN s : s[i] = x})
SameArticles(s, t) ==
    /\ Len(s) = Len(t)
    /\ \A x \in Range(s) \cup Range(t) : Count(s, x) = Count(t, x)

\* A source fails: its descriptor is malformed, its parse raises, or one of
\* its entries is malformed.
EntryFails(e, desc) == NormalizeEntry(e, desc).raised
SourceFails(f) ==
    ParseFails(f) \/ \E i \in DOMAIN f.entries : EntryFails(f.entries[i], f.desc)

\* C3: whichever sources fail, fetch_articles completes and its result
\* holds every article of every source that did not fail.
C3_BadSourceIsolated ==
    fetched.done =>
        /\ ~fetched.raised
        /\ \A i \in DOMAIN feeds :
              ~SourceFails(feeds[i]) =>
                 \A j \in DOMAIN feeds[i].entries :
                    NormalizeEntry(feeds[i].entries[j], feeds[i].desc).article
                       \in Range(fetched.articles)

\* C4: the returned sequence is in non-increasing order of published
\* timestamp with an absent timestamp as the minimum: no article without a
\* timestamp stands before one that has a timestamp, zero and negative
\* timestamps included.
C4_SortedAbsentLast ==
    (fetched.done /\ ~fetched.raised) =>
        \A i, j \in DOMAIN fetched.articles :
            i < j =>
               LET a == fetched.articles[i]
                   b == fetched.articles[j]
               IN /\ ~(a.published = Nothing /\ b.published # Nothing)
                  /\ (a.published # Nothing /\ b.published # Nothing)
                        => Get(a.published) >= Get(b.published)

\* The cutoff now - freshnessWindow lies between the two modelled dates.
Fresh(ts) == ts >= 0

RECURSIVE ArticlesOfAllEntries(_)
ArticlesOfAllEntries(fs) ==
    IF fs = <<>> THEN <<>>
    ELSE LET f == Head(fs) IN
         (IF ParseFails(f) THEN <<>>
          ELSE [j \in DOMAIN f.entries |-> NormalizeEntry(f.entries[j], f.desc).article])
         \o ArticlesOfAllEntries(Tail(fs))

----------------------------------------------------------------------------
(* index(): src/app.py lines 106-159 *)

\* Line 117.
per_page == 18

Min(a, b) == IF a < b THEN a ELSE b
Max(a, b) == IF a > b THEN a ELSE b

DigitChars == <<"0", "1", "2", "3", "4", "5", "6", "7", "8", "9">>
IsDigit(c) == \E d \in DOMAIN DigitChars : DigitChars[d] = c
DigitValue(c) == (CHOOSE d \in DOMAIN DigitChars : DigitChars[d] = c) - 1

RECURSIVE DigitsValue(_)
DigitsValue(t) ==
    IF t = <<>> THEN 0
    ELSE DigitsValue(SubSeq(t, 1, Len(t) - 1)) * 10 + DigitValue(t[Len(t)])

\* int(text): surrounding whitespace is dropped, an optional sign, then at
\* least one decimal digit; anything else raises ValueError.
PyInt(text) ==
    LET t == Strip(text)
        signed == t # <<>> /\ Head(t) \in {"-", "+"}
        digits == IF signed THEN Tail(t) ELSE t
    IN IF digits # <<>> /\ \A i \in DOMAIN digits : IsDigit(digits[i])
       THEN [raised |-> FALSE,
             value |-> IF signed /\ Head(t) = "-"
                       THEN 0 - DigitsValue(digits) ELSE DigitsValue(digits)]
       ELSE [raised |-> TRUE, value |-> 0]

\* Line 116: int(request.args.get("page", 1)).
PageParam(arg) ==
    IF arg = Nothing THEN [raised |-> FALSE, value |-> 1] ELSE PyInt(Get(arg))

\* Lines 111-114: (request.args.get(k) or "").strip().lower().
FilterParam(arg) == Lower(Strip(IF IsSome(arg) THEN Get(arg) ELSE <<>>))

\* Line 122.
SearchText(a) == Lower(a.title \o <<" ">> \o a.summary)

\* matches(a) with the filters joined by `or` instead of `and`.
matches_any(a, q, region, domain, source) ==
    LET text == SearchText(a)
    IN \/ q = <<>> /\ region = <<>> /\ domain = <<>> /\ source = <<>>
       \/ q # <<>> /\ Contains(text, q)
       \/ region # <<>> /\ Contains(text, region)
       \/ domain # <<>> /\ Contains(text, domain)
       \/ source # <<>> /\ source = Lower(a.source)

\* Lines 121-128: matches(a), with ok threaded through the four ifs.
matches(a, q, region, domain, source) ==
    LET text == SearchText(a)
        ok1 == IF q # <<>> THEN Contains(text, q) ELSE TRUE
        ok2 == IF region # <<>> THEN ok1 /\ Contains(text, region) ELSE ok1
        ok3 == IF domain # <<>> THEN ok2 /\ Contains(text, domain) ELSE ok2
        ok4 == IF source # <<>> THEN ok3 /\ (source = Lower(a.source)) ELSE ok3
    IN ok4

\* Line 130: the list comprehension keeps the order of articles.
FilterArticles(articles, q, region, domain, source) ==
    SelectSeq(articles, LAMBDA a : matches(a, q, region, domain, source))

\* math.ceil(total / per_page) for a non-negative total.
CeilDiv(a, b) == (a + b - 1) \div b

\* filtered[start:end] with 0 <= start <= end: both ends are cut to len.
PySlice(s, start, end) == SubSeq(s, Min(start, Len(s)) + 1, Min(end, Len(s)))

\* Lines 137-141 with the slice starting one page too far.
PaginateOffByOne(filtered, requested) ==
    LET pages == Max(1, CeilDiv(Len(filtered), per_page))
        page == Min(Max(1, requested), pages)
        start == page * per_page
    IN [page |-> page, pages |-> pages, items |-> PySlice(filtered, start, start + per_page)]

\* Lines 137-141.
Paginate(filtered, requested) ==
    LET pages == Max(1, CeilDiv(Len(filtered), per_page))
        page == Min(Max(1, requested), pages)
        start == (page - 1) * per_page
        end == start + per_page
    IN [page |-> page, pages |-> pages, items |-> PySlice(filtered, start, end)]

\* The response of an unhandled exception.
ServerError ==
    [done |-> TRUE, status |-> 500, page |-> 0, pages |-> 0, total |-> 0,
     items |-> <<>>, filtered |-> <<>>, sources |-> {}]

\* Lines 108-159.  filtered is the local of line 130 and sources the set of
\* line 119; the trends of line 134 and view are handed to the template
\* and decide nothing else.
IndexResponse(fs, a) ==
    LET f == fetch_articles(fs)
        pg == PageParam(a.page)
    IN IF f.raised \/ pg.raised THEN ServerError
       ELSE LET filtered == FilterArticles(f.articles, FilterParam(a.q),
                                FilterParam(a.region), FilterParam(a.domain),
                                FilterParam(a.source))
                p == Paginate(filtered, pg.value)
            IN [done |-> TRUE, status |-> 200, page |-> p.page, pages |-> p.pages,
                total |-> Len(filtered), items |-> p.items, filtered |-> filtered,
                sources |-> {f.articles[i].source : i \in DOMAIN f.articles}]

----------------------------------------------------------------------------
(* SpecIndex: one GET / request over feeds that hold n articles *)

\* Decimal digits of a natural number.
RECURSIVE Dec(_)
Dec(n) == IF n < 10 THEN <<DigitChars[n + 1]>> ELSE Dec(n \div 10) \o <<DigitChars[(n % 10) + 1]>>

\* Entry i of the modelled feeds: its link is its number, its date grows
\* with i, and titles and summaries cycle so that filters select subsets.
IndexEntry(i) ==
    [PlainEntry EXCEPT
        !.title = Some(CASE i % 3 = 1 -> <<"a", "B">>
                         [] i % 3 = 2 -> <<"b", "c">>
                         [] OTHER -> <<"c">>),
        !.link = Some(Dec(i)),
        !.summary = IF i % 4 = 0 THEN Some(<<"A">>) ELSE Nothing,
        !.published = [kind |-> "ok", ts |-> i]]

EntriesWhere(n, P(_)) ==
    LET all == [i \in 1..n |-> i]
        keep == SelectSeq(all, P)
    IN [k \in DOMAIN keep |-> IndexEntry(keep[k])]

\* Two feeds that share n entries: a named one and one without a name.
IndexFeeds(n) ==
    <<[desc |-> NamedDesc, parseRaises |-> FALSE,
       entries |-> EntriesWhere(n, LAMBDA i : i % 2 = 1)],
      [desc |-> [hasUrl |-> TRUE, name |-> Nothing], parseRaises |-> FALSE,
       entries |-> EntriesWhere(n, LAMBDA i : i % 2 = 0)]>>

\* Feeds on which fetch_articles raises.
BrokenFeeds ==
    <<[desc |-> NamedDesc, parseRaises |-> FALSE,
       entries |-> <<[PlainEntry EXCEPT !.links =
           <<[type |-> [kind |-> "nonstr", text |-> <<>>], href |-> Nothing]>>]>>]>>

IndexWorlds == {IndexFeeds(n) : n \in 0..MaxArticles} \cup {BrokenFeeds}

QArgs == {Nothing, Some(<<"a">>), Some(<<" ", "B", " ">>)}
RegionArgs == {Nothing, Some(<<"b">>)}
DomainArgs == {Nothing, Some(<<"c">>), Some(<<" ">>)}
SourceArgs == {Nothing, Some(<<"N">>), Some(<<"x">>)}
PageArgs ==
    {Nothing, Some(<<>>), Some(<<"x">>), Some(<<"1", "x">>), Some(<<"-", "1">>),
     Some(<<"0">>), Some(<<"1">>), Some(<<"2">>), Some(<<"3">>), Some(<<"9", "9">>)}

RequestArgs ==
    [q : QArgs, region : RegionArgs, domain : DomainArgs, source : SourceArgs,
     page : PageArgs]

NoArgs ==
    [q |-> Nothing, region |-> Nothing, domain |-> Nothing, source |-> Nothing,
     page |-> Nothing]

NoResponse == [ServerError EXCEPT !.done = FALSE, !.status = 0]

IndexUnchanged == UNCHANGED <<cache, treq, rawEntry, normalized, fetched>>

IndexInit ==
    /\ feeds \in IndexWorlds
    /\ args = NoArgs
    /\ response = NoResponse
    /\ cache = Unused /\ treq = Unused
    /\ rawEntry = Unused /\ normalized = Unused
    /\ fetched = Unused

Index ==
    /\ ~response.done
    /\ \E a \in RequestArgs :
          /\ args' = a
          /\ response' = IndexResponse(feeds, a)
    /\ UNCHANGED feeds
    /\ IndexUnchanged

IndexNext == Index

SpecIndex == IndexInit /\ [][IndexNext]_vars

\* The request reached the pagination: fetch_articles returned and the
\* page parameter is absent or an integer.
PageIsInteger == args.page = Nothing \/ ~PyInt(Get(args.page)).raised
RequestedPage == IF args.page = Nothing THEN 1 ELSE PyInt(Get(args.page)).value
FetchReturned == ~fetch_articles(feeds).raised

\* max(1, ceil(n / per_page)): the least k >= 1 with k * per_page >= n.
TotalPages(n) == CHOOSE k \in 1..(n + 1) : k * per_page >= n /\ (k = 1 \/ (k - 1) * per_page < n)

Clamp(x, lo, hi) == IF x < lo THEN lo ELSE IF x > hi THEN hi ELSE x

RECURSIVE PagesConcat(_, _)
PagesConcat(filtered, p) ==
    IF p = 0 THEN <<>> ELSE PagesConcat(filtered, p - 1) \o Paginate(filtered, p).items

\* C6: for n filtered articles and any requested integer page, totalPages is
\* max(1, ceil(n / 18)), the effective page is the requested one clamped
\* into [1, totalPages], the items are the filtered articles at indices
\* [(page-1)*18, page*18) in filtered order, no page is an error, and the
\* pages 1..totalPages partition the filtered list.
C6_Pagination ==
    (response.done /\ FetchReturned /\ PageIsInteger) =>
        LET n == Len(response.filtered)
            tp == TotalPages(n)
            eff == Clamp(RequestedPage, 1, tp)
            first == (eff - 1) * per_page
            last == Min(eff * per_page, n)
        IN /\ response.status = 200
           /\ response.total = n
           /\ response.pages = tp
           /\ response.page = eff
           /\ response.items = [i \in 1..(last - first) |-> response.filtered[first + i]]
           /\ PagesConcat(response.filtered, tp) = response.filtered

\* 37 filtered articles, page=99: the answer is page 3 of 3 with one item.
C6_LastPageOf37 ==
    /\ response.done /\ response.status = 200
    /\ response.total = 37 /\ RequestedPage = 99
    /\ response.pages = 3 /\ response.page = 3 /\ Len(response.items) = 1

\* An article satisfies a filter that is empty after strip(), and
\* otherwise a text filter by holding it as a substring of its lowered
\* title and summary, and the source filter by equality with its lowered
\* source.
SatisfiesText(a, arg) ==
    FilterParam(arg) = <<>> \/ Contains(SearchText(a), FilterParam(arg))
SatisfiesSource(a, arg) ==
    FilterParam(arg) = <<>> \/ FilterParam(arg) = Lower(a.source)
SatisfiesAll(a) ==
    /\ SatisfiesText(a, args.q)
    /\ SatisfiesText(a, args.region)
    /\ SatisfiesText(a, args.domain)
    /\ SatisfiesSource(a, args.source)

\* C7: filtering is conjunctive: an article is in the filtered set if and
\* only if it satisfies every non-empty filter among q, region, domain and
\* source, an empty or absent filter matches every article, and the
\* filtered set keeps the order of the fetched list.
C7_ConjunctiveFilter ==
    (response.done /\ response.status = 200) =>
        response.filtered = SelectSeq(fetch_articles(feeds).articles, SatisfiesAll)

\* region and domain are both set, and a fetched article that matches the
\* region but not the domain is left out while another article is kept.
C7_RegionWithoutDomainExcluded ==
    /\ response.done /\ response.status = 200
    /\ FilterParam(args.region) # <<>> /\ FilterParam(args.domain) # <<>>
    /\ response.filtered # <<>>
    /\ \E i \in DOMAIN fetch_articles(feeds).articles :
          LET a == fetch_articles(feeds).articles[i]
          IN /\ Contains(SearchText(a), FilterParam(args.region))
             /\ ~Contains(SearchText(a), FilterParam(args.domain))
             /\ a \notin Range(response.filtered)

\* C10: a page parameter that is not a valid integer is not rejected: the
\* page defaults to 1 and the response is the first page of the filtered
\* set; an unknown filter value is literal text and gives a normal result.
C10_BadPageDefaultsToOne ==
    (response.done /\ FetchReturned) =>
        /\ response.status = 200
        /\ ~PageIsInteger =>
              /\ response.page = 1
              /\ response.items = Paginate(response.filtered, 1).items

====
